---- MODULE Spec2Model ----
(***************************************************************************)
(* Rental lifecycle of velobike-bot: the active_rides table (database.py), *)
(* the stop sequence stop_ride_handler and its two triggers, the manual    *)
(* stop and the auto_finish_ride retry loop (bot.py), the start handler    *)
(* with the two tasks it creates, and the gateway's mapping of the         *)
(* external service's answers (api.py).                                    *)
(*                                                                         *)
(* asyncio runs one coroutine at a time and switches only at an await, so  *)
(* each action is the code between two awaits of one coroutine.            *)
(***************************************************************************)
EXTENDS Integers, Sequences, FiniteSets, TLC

\* ---------------------------------------------------------------- bounds
MaxStarts  == 2    \* remote rentals the external service hands out

\* ------------------------------------------------------ program constants
max_retries   == 5         \* auto_finish_ride
total_seconds == 29 * 60   \* countdown_timer
update_interval == 30      \* countdown_timer

Users   == {42}
Logins  == {"u1"}
Devices == {"D1"}

RentIds   == 1..MaxStarts
None      == 0
ManualIds == {"m1"}
Tasks     == {<<"auto", r>> : r \in RentIds} \cup {<<"manual", m>> : m \in ManualIds}

Ops == {"finish", "park", "upload_photo", "finish_after_upload"}

\* The external service's answer to one call: 200 with a non-empty JSON body,
\* 200 with a falsy JSON body, 404 with a JSON body, another non-200 status
\* with a JSON body, a non-200 status whose body is not JSON, or a 200 that
\* cannot be parsed / a connection that fails.
ExtResponses == {"ok", "ok_empty", "not_found", "error", "error_text",
                 "unparseable"}

VARIABLES
    rides,      \* table active_rides: a set of rows
    task,       \* the coroutines: auto_finish_ride per rental, manual stops
    nextRent,   \* next rental id the external service hands out
    startRes,   \* per user: outcome of the last callback_start_ride
    issued,     \* history: per rental id, the calls that were sent
    done,       \* history: per rental id, the calls that were answered
                \*          without an exception in the bot (200, 404-as-False)
    deleted,    \* history: rental ids whose row delete_ride removed
    countdown,  \* the countdown_timer coroutines, one per rental
    seen,       \* per user: what the last get_ride lookup returned
    lock,       \* per user: outcome of the last callback_open_lock
    approved,   \* table telegram_users: per user, no row / approved or not
    keyboard,   \* per user: the inline buttons the chat shows
    accounts,   \* table accounts of the gateway: the logins it knows
    last        \* history: the last two direct calls of delete_ride and
                \*          bump_stop_step with what they returned

vars == <<rides, task, nextRent, startRes, issued, done, deleted, countdown,
          seen, lock, approved, keyboard, accounts, last>>

\* ------------------------------------------------------------- database.py
NoRide == [user_id |-> 0, login |-> "", rent_id |-> None, device_id |-> "",
           stop_step |-> 0]

\* the column stop_step with a default of 1
ActiveRide_StepOne(user_id, login, rent_id, device_id) ==
    [user_id |-> user_id, login |-> login, rent_id |-> rent_id,
     device_id |-> device_id, stop_step |-> 1]

ActiveRide(user_id, login, rent_id, device_id) ==
    [user_id |-> user_id, login |-> login, rent_id |-> rent_id,
     device_id |-> device_id, stop_step |-> 0]

RowsOf(rs, user_id) == {r \in rs : r.user_id = user_id}

\* a lookup whose filter matches no row
get_ride_Nothing(rs, user_id) == NoRide

\* query(ActiveRide).filter(user_id == ...).first()
get_ride(rs, user_id) ==
    IF RowsOf(rs, user_id) = {} THEN NoRide
    ELSE CHOOSE r \in RowsOf(rs, user_id) : TRUE

\* the table without the UNIQUE constraint on user_id
save_ride_raises_NoUnique(rs, user_id) == FALSE

\* user_id is UNIQUE: the INSERT of a second row for the user raises
save_ride_raises(rs, user_id) == RowsOf(rs, user_id) # {}

save_ride(rs, user_id, login, rent_id, device_id) ==
    IF save_ride_raises(rs, user_id) THEN rs
    ELSE rs \cup {ActiveRide(user_id, login, rent_id, device_id)}

\* delete_ride whose query has no filter on user_id
delete_ride_Unfiltered(rs, user_id) ==
    IF rs = {} THEN rs ELSE rs \ {CHOOSE r \in rs : TRUE}

\* the table after delete_ride(user_id)
delete_ride(rs, user_id) ==
    IF RowsOf(rs, user_id) = {} THEN rs
    ELSE rs \ {get_ride(rs, user_id)}

\* what delete_ride(user_id) returns
delete_ride_returns(rs, user_id) ==
    IF RowsOf(rs, user_id) = {} THEN "False" ELSE "True"

\* bump_stop_step that also rewrites device_id
bump_stop_step_ClearsDevice(rs, user_id) ==
    IF RowsOf(rs, user_id) = {} THEN rs
    ELSE LET r == get_ride(rs, user_id)
         IN  (rs \ {r}) \cup {[r EXCEPT !.stop_step = r.stop_step + 1,
                                       !.device_id = ""]}

\* stop_step += 3
bump_stop_step_ByThree(rs, user_id) ==
    IF RowsOf(rs, user_id) = {} THEN rs
    ELSE LET r == get_ride(rs, user_id)
         IN  (rs \ {r}) \cup {[r EXCEPT !.stop_step = r.stop_step + 3]}

\* the table after bump_stop_step(user_id)
bump_stop_step(rs, user_id) ==
    IF RowsOf(rs, user_id) = {} THEN rs
    ELSE LET r == get_ride(rs, user_id)
         IN  (rs \ {r}) \cup {[r EXCEPT !.stop_step = r.stop_step + 1]}

\* what bump_stop_step(user_id) returns: None, or the refreshed ride
bump_stop_step_returns(rs, user_id) ==
    IF RowsOf(rs, user_id) = {} THEN "None" ELSE "ride"

\* ------------------------------------------------------------------ api.py
\* What the gateway endpoint answers the bot: a 200 whose JSON is truthy, a
\* 200 whose JSON is falsy, an HTTPException carrying the status of the
\* external service, or a 500 for an exception the endpoint does not catch.
\* finish_rent that returns the body of a 404 as it does for a 200
finish_rent_NotFoundReturnsBody(ext) ==
    CASE ext = "ok"          -> "truthy"
      [] ext = "ok_empty"    -> "falsy"
      [] ext = "not_found"   -> "truthy"
      [] ext = "error"       -> "http_error"
      [] ext = "error_text"  -> "http_error"
      [] ext = "unparseable" -> "internal_error"

finish_rent(ext) ==
    CASE ext = "ok"          -> "truthy"
      [] ext = "ok_empty"    -> "falsy"
      [] ext = "not_found"   -> "falsy"           \* return False
      [] ext = "error"       -> "http_error"
      [] ext = "error_text"  -> "http_error"      \* resp.text()
      [] ext = "unparseable" -> "internal_error"  \* resp.json() raises

park_bike(ext) ==
    CASE ext = "ok"          -> "truthy"      \* {"message": ..., "data": ...}
      [] ext = "ok_empty"    -> "truthy"
      [] ext = "not_found"   -> "http_error"
      [] ext = "error"       -> "http_error"
      [] ext = "error_text"  -> "internal_error"  \* resp.json() raises
      [] ext = "unparseable" -> "internal_error"

upload_photo(ext) ==
    CASE ext = "ok"          -> "truthy"
      [] ext = "ok_empty"    -> "truthy"
      [] ext = "not_found"   -> "http_error"
      [] ext = "error"       -> "http_error"
      [] ext = "error_text"  -> "http_error"      \* resp.text()
      [] ext = "unparseable" -> "internal_error"

finish_rent_after_upload(ext) ==
    CASE ext = "ok"          -> "truthy"
      [] ext = "ok_empty"    -> "falsy"
      [] ext = "not_found"   -> "falsy"
      [] ext = "error"       -> "http_error"
      [] ext = "error_text"  -> "http_error"
      [] ext = "unparseable" -> "internal_error"

open_lock(ext) ==
    CASE ext = "ok"          -> "truthy"
      [] ext = "ok_empty"    -> "truthy"
      [] ext = "not_found"   -> "http_error"
      [] ext = "error"       -> "http_error"
      [] ext = "error_text"  -> "http_error"
      [] ext = "unparseable" -> "internal_error"

\* rent_rents: a 200 whose status is not ERROR_START is returned as it is, a
\* 200 with ERROR_START and failedReason ACCOUNT_BLOCKED is returned too, any
\* other ERROR_START becomes a 400 and a non-200 keeps its status.
rent_rents(ext) ==
    CASE ext = "ok"      -> "data"
      [] ext = "blocked" -> "blocked_data"
      [] ext = "error"   -> "http_error"

Gateway(op, ext) ==
    CASE op = "finish"              -> finish_rent(ext)
      [] op = "park"                -> park_bike(ext)
      [] op = "upload_photo"        -> upload_photo(ext)
      [] op = "finish_after_upload" -> finish_rent_after_upload(ext)
      [] op = "open_lock"           -> open_lock(ext)
      [] op = "rent_rents"          -> rent_rents(ext)

\* get_account_by_login(login) is not None
get_account_by_login(accs, login) == login \in accs

\* an endpoint that asks the external service without looking up the account
Endpoint_NoAccountCheck(op, account, ext) ==
    [answer |-> Gateway(op, ext), external |-> TRUE]

\* One endpoint as a whole: `if not account: raise
\* HTTPException(404, "Account not found")` comes before the session to the
\* external service is opened. external: the external service was called.
Endpoint(op, account, ext) ==
    IF ~account
    THEN [answer |-> "http_error", external |-> FALSE]
    ELSE [answer |-> Gateway(op, ext), external |-> TRUE]

\* ------------------------------------------------------------------ bot.py
\* call_api: the JSON of a 200, an exception for anything else
call_api(op, account, ext) ==
    IF Endpoint(op, account, ext).answer \in {"http_error", "internal_error"}
    THEN "raise"
    ELSE Endpoint(op, account, ext).answer

\* the text of the exception call_api raises names the status and the detail
ApiErrors == {"ApiError", "ApiError_AccountNotFound"}
ApiErrorOf(account) ==
    IF account THEN "ApiError" ELSE "ApiError_AccountNotFound"

\* the blocks numbered from 1, stop_step 0 meaning that no stop has begun
StepOp_FromOne(stop_step) ==
    CASE stop_step = 1 -> "finish"
      [] stop_step = 2 -> "park"
      [] stop_step = 3 -> "upload_photo"
      [] stop_step = 4 -> "finish_after_upload"
      [] OTHER         -> "none"

\* the four `if ride.stop_step == k` blocks of stop_ride_handler
StepOp(stop_step) ==
    CASE stop_step = 0 -> "finish"
      [] stop_step = 1 -> "park"
      [] stop_step = 2 -> "upload_photo"
      [] stop_step = 3 -> "finish_after_upload"
      [] OTHER         -> "none"

\* callback_start_ride without the test of failedReason
start_raises_NoBlockedCheck(ans) == ans = "http_error"

\* callback_start_ride before save_ride: call_api raises on a non-200, the
\* handler raises when failedReason is ACCOUNT_BLOCKED
start_raises(ans) == ans = "http_error" \/ ans = "blocked_data"

\* stop_ride_handler going on to the block of the next call after any answer
\* that did not raise
LocalStep_NextAfterAnyAnswer(ride, out) == ride.stop_step + 1

\* the ride object refreshed after bump_stop_step
LocalStep_Refreshed(ride, out) ==
    IF out = "truthy" THEN ride.stop_step + 1 ELSE ride.stop_step

\* ride.stop_step as the blocks after the matching one read it:
\* bump_stop_step updates the row through a session of its own, the ride
\* object get_ride returned is detached and keeps the value read at entry.
LocalStep(ride, out) == ride.stop_step

\* the entry checks without the comparison of rentId
Refusal_NoMismatch(ride, rentId) ==
    IF ride = NoRide THEN "NoActiveRental" ELSE "none"

\* the two checks at the entry of stop_ride_handler
Refusal(ride, rentId) ==
    IF ride = NoRide THEN "NoActiveRental"
    ELSE IF rentId # None /\ ride.rent_id # rentId THEN "RentalMismatch"
    ELSE "none"

NoRet == [kind |-> "none", rent |-> None]
Ret(kind, rent) == [kind |-> kind, rent |-> rent]

\* One coroutine. ride, op: the ride object read at entry and the call that
\* is in flight (while pc = "await"); calls: the calls this invocation of
\* stop_ride_handler has sent; out: the *_result the last call_api returned;
\* ret: how the last stop_ride_handler ended; msg: the last message sent to
\* the user; attempt: the loop variable of auto_finish_ride; sent: the calls
\* of the attempts of one run of auto_finish_ride, kept as long as every
\* attempt of the run has sent its call and seen it raise.
IdleTask == [pc |-> "idle", user |-> 0, arg |-> None, ride |-> NoRide,
             op |-> "none", calls |-> <<>>, out |-> "none", attempt |-> 0,
             sent |-> <<>>, ret |-> NoRet, msg |-> "none"]

\* One countdown_timer coroutine: remaining is its local variable, polls
\* counts the get_ride lookups it has made.
IdleCountdown == [pc |-> "idle", user |-> 0, remaining |-> 0, polls |-> 0]

NotSeen == [read |-> FALSE, ride |-> NoRide]
NoLock  == [res |-> "none", login |-> "", rent_id |-> None, device_id |-> ""]

IsAuto(t) == t[1] = "auto"

Record(f, r, op) == [f EXCEPT ![r] = @ \cup {op}]
NoCalls == [r \in RentIds |-> {}]

Init ==
    /\ rides = {}
    /\ task = [t \in Tasks |-> IdleTask]
    /\ nextRent = 1
    /\ startRes = [u \in Users |-> "none"]
    /\ issued = NoCalls
    /\ done = NoCalls
    /\ deleted = {}
    /\ countdown = [r \in RentIds |-> IdleCountdown]
    /\ seen = [u \in Users |-> NotSeen]
    /\ lock = [u \in Users |-> NoLock]
    /\ approved = [u \in Users |-> "unregistered"]
    /\ keyboard = [u \in Users |-> {}]
    /\ accounts = Logins
    /\ last = <<>>

\* ------------------------------------------------- stop_ride_handler, ends
\* auto_finish_ride giving up one attempt early (attempt < max_retries - 1)
Raised_GivesUpEarly(t, tk, kind) ==
    LET e == [tk EXCEPT !.ride = NoRide, !.op = "none", !.out = "none",
                        !.sent = IF kind \in ApiErrors THEN @ ELSE <<>>]
    IN  IF IsAuto(t)
        THEN IF tk.attempt < max_retries - 1
             THEN [e EXCEPT !.pc = "sleep", !.calls = <<>>]
             ELSE [e EXCEPT !.pc = "done", !.ret = Ret(kind, None),
                            !.msg = "auto_failed"]
        ELSE [e EXCEPT !.pc = "done", !.ret = Ret(kind, None), !.msg = "error"]

\* auto_finish_ride without the test of attempt: it sleeps and retries forever
Raised_NoBudget(t, tk, kind) ==
    LET e == [tk EXCEPT !.ride = NoRide, !.op = "none", !.out = "none",
                        !.sent = IF kind \in ApiErrors THEN @ ELSE <<>>]
    IN  IF IsAuto(t)
        THEN [e EXCEPT !.pc = "sleep", !.calls = <<>>]
        ELSE [e EXCEPT !.pc = "done", !.ret = Ret(kind, None), !.msg = "error"]

\* stop_ride_handler_unified sleeping for a retry as auto_finish_ride does
Raised_ManualRetries(t, tk, kind) ==
    LET e == [tk EXCEPT !.ride = NoRide, !.op = "none", !.out = "none",
                        !.sent = IF kind \in ApiErrors THEN @ ELSE <<>>]
    IN  IF IsAuto(t)
        THEN IF tk.attempt < max_retries
             THEN [e EXCEPT !.pc = "sleep", !.calls = <<>>]
             ELSE [e EXCEPT !.pc = "done", !.ret = Ret(kind, None),
                            !.msg = "auto_failed"]
        ELSE [e EXCEPT !.pc = "sleep", !.calls = <<>>]

\* An exception leaves stop_ride_handler: stop_ride_handler_unified answers
\* the user with it; auto_finish_ride sleeps and retries, or gives up after
\* max_retries attempts.
Raised(t, tk, kind) ==
    LET e == [tk EXCEPT !.ride = NoRide, !.op = "none", !.out = "none",
                        !.sent = IF kind \in ApiErrors THEN @ ELSE <<>>]
    IN  IF IsAuto(t)
        THEN IF tk.attempt < max_retries
             THEN [e EXCEPT !.pc = "sleep", !.calls = <<>>]
             ELSE [e EXCEPT !.pc = "done", !.ret = Ret(kind, None),
                            !.msg = "auto_failed"]
        ELSE [e EXCEPT !.pc = "done", !.ret = Ret(kind, None), !.msg = "error"]

\* auto_finish_ride returning after a stop that worked without a message
Returned_NoMessage(t, tk) ==
    [tk EXCEPT !.ride = NoRide, !.op = "none", !.pc = "done",
               !.sent = <<>>, !.ret = Ret("ok", tk.ride.rent_id)]

\* stop_ride_handler returns ride.rent_id
Returned(t, tk) ==
    LET e == [tk EXCEPT !.ride = NoRide, !.op = "none", !.pc = "done",
                        !.sent = <<>>, !.ret = Ret("ok", tk.ride.rent_id)]
    IN  IF IsAuto(t) THEN [e EXCEPT !.msg = "auto_finished"] ELSE e

\* bump_stop_step called before the answer is looked at
AfterResponse_BumpOnError(rs, user_id, out) ==
    CASE out = "truthy" -> delete_ride(bump_stop_step(rs, user_id), user_id)
      [] out = "falsy"  -> delete_ride(rs, user_id)
      [] out = "raise"  -> bump_stop_step(rs, user_id)

\* The store after the answer to the one call of an invocation: the matching
\* block bumps the row when the answer is truthy; the later blocks test the
\* ride object read at entry, whose stop_step still has the value that
\* matched, so none of them runs; delete_ride follows unconditionally.
AfterResponse(rs, user_id, out) ==
    CASE out = "truthy" -> delete_ride(bump_stop_step(rs, user_id), user_id)
      [] out = "falsy"  -> delete_ride(rs, user_id)
      [] out = "raise"  -> rs

\* the block `if ride.stop_step == k` sends its call and awaits the answer
Dispatch(t, tk, ride) ==
    [tk EXCEPT !.pc = "await", !.ride = ride,
               !.op = StepOp(ride.stop_step),
               !.calls = Append(@, StepOp(ride.stop_step)),
               !.sent = IF IsAuto(t) THEN Append(@, StepOp(ride.stop_step))
                        ELSE @]

\* stop_ride_handler from its entry to its first await (or to its end)
Enter(t, tk0) ==
    LET tk   == [tk0 EXCEPT !.calls = <<>>, !.out = "none", !.op = "none",
                            !.ret = NoRet, !.msg = "none"]
        ride == get_ride(rides, tk.user)
    IN  IF Refusal(ride, tk.arg) # "none"
        THEN /\ task' = [task EXCEPT ![t] = Raised(t, tk, Refusal(ride, tk.arg))]
             /\ UNCHANGED <<rides, issued, deleted>>
        ELSE IF StepOp(ride.stop_step) # "none"
        THEN /\ task' = [task EXCEPT ![t] = Dispatch(t, tk, ride)]
             /\ issued' = Record(issued, ride.rent_id, StepOp(ride.stop_step))
             /\ UNCHANGED <<rides, deleted>>
        ELSE /\ rides' = delete_ride(rides, tk.user)
             /\ deleted' = deleted \cup {ride.rent_id}
             /\ task' = [task EXCEPT ![t] = Returned(t, [tk EXCEPT !.ride = ride])]
             /\ UNCHANGED issued

\* ---------------------------------------------------------------- actions
\* callback_start_ride: POST /rent/rents, then save_ride, then the
\* auto_finish_ride task. The handler reads nothing of the store before
\* save_ride, so the action is placed at the moment the remote answer arrives.
callback_start_ride(u, login, device, ext) ==
    \* the message loses its start button first; the ride keyboard replaces
    \* the text once save_ride has returned
    /\ keyboard' = [keyboard EXCEPT ![u] =
                       IF \/ start_raises(Endpoint("rent_rents",
                                 get_account_by_login(accounts, login), ext).answer)
                          \/ save_ride_raises(rides, u)
                       THEN @ \ {"start"}
                       ELSE (@ \ {"start"}) \cup {"ride"}]
    /\ IF start_raises(Endpoint("rent_rents",
                   get_account_by_login(accounts, login), ext).answer)
       THEN /\ startRes' = [startRes EXCEPT ![u] = "RemoteRejected"]
            /\ UNCHANGED <<rides, task, countdown, nextRent>>
       ELSE /\ nextRent <= MaxStarts
            \* the external service hands out a rental only when it answers ok
            /\ nextRent' = IF ext = "ok" THEN nextRent + 1 ELSE nextRent
            /\ IF save_ride_raises(rides, u)
               THEN /\ startRes' = [startRes EXCEPT ![u] = "AlreadyActive"]
                    /\ UNCHANGED <<rides, task, countdown>>
               ELSE /\ rides' = save_ride(rides, u, login, nextRent, device)
                    /\ startRes' = [startRes EXCEPT ![u] = "ok"]
                    /\ task' = [task EXCEPT ![<<"auto", nextRent>>] =
                                   [IdleTask EXCEPT !.pc = "sleep", !.user = u,
                                                    !.arg = nextRent]]
                    /\ countdown' = [countdown EXCEPT ![nextRent] =
                                        [pc |-> "poll", user |-> u,
                                         remaining |-> total_seconds,
                                         polls |-> 0]]
    /\ UNCHANGED <<issued, done, deleted, seen, lock, approved, accounts, last>>

\* stop_ride_handler_unified: stop_ride_handler(chat_id), no rentId
stop_ride_handler_unified(t, u) ==
    /\ ~IsAuto(t)
    /\ task[t].pc \in {"idle", "done"}
    /\ Enter(t, [IdleTask EXCEPT !.user = u])
    /\ UNCHANGED <<nextRent, startRes, done, countdown, seen, lock,
                   approved, keyboard, accounts, last>>

\* auto_finish_ride: one pass of the for loop, after the sleep
auto_finish_ride(t) ==
    /\ IsAuto(t)
    /\ task[t].pc = "sleep"
    /\ Enter(t, [task[t] EXCEPT !.attempt = @ + 1])
    /\ UNCHANGED <<nextRent, startRes, done, countdown, seen, lock,
                   approved, keyboard, accounts, last>>

\* stop_ride_handler from the answer of its call to its end
stop_ride_handler(t, ext) ==
    /\ task[t].pc = "await"
    /\ LET account == get_account_by_login(accounts, task[t].ride.login)
           out == call_api(task[t].op, account, ext)
           tk  == [task[t] EXCEPT !.out = out]
           before == IF out = "truthy" THEN bump_stop_step(rides, tk.user) ELSE rides
           later  == [tk.ride EXCEPT !.stop_step = LocalStep(tk.ride, out)]
       IN  IF out = "raise"
           THEN /\ rides' = AfterResponse(rides, tk.user, out)
                /\ task' = [task EXCEPT ![t] = Raised(t, tk, ApiErrorOf(account))]
                /\ UNCHANGED <<issued, done, deleted>>
           ELSE IF later.stop_step > tk.ride.stop_step
                   /\ StepOp(later.stop_step) # "none"
           THEN \* a block after the matching one matches too
                /\ rides' = before
                /\ task' = [task EXCEPT ![t] = Dispatch(t, tk, later)]
                /\ issued' = Record(issued, later.rent_id, StepOp(later.stop_step))
                /\ done' = Record(done, tk.ride.rent_id, tk.op)
                /\ UNCHANGED deleted
           ELSE /\ rides' = AfterResponse(rides, tk.user, out)
                /\ task' = [task EXCEPT ![t] = Returned(t, tk)]
                /\ done' = Record(done, tk.ride.rent_id, tk.op)
                /\ deleted' = deleted \cup
                                {r.rent_id : r \in RowsOf(before, tk.user)}
                /\ UNCHANGED issued
    /\ UNCHANGED <<nextRent, startRes, countdown, seen, lock, approved,
                   keyboard, accounts, last>>

\* The process is killed while its coroutines wait: every task is lost, the
\* table stays.
Crash ==
    /\ \E t \in Tasks : task[t].pc \in {"await", "sleep"}
    /\ task' = [t \in Tasks |-> IdleTask]
    /\ countdown' = [r \in RentIds |-> IdleCountdown]
    /\ UNCHANGED <<rides, nextRent, startRes, issued, done, deleted, seen, lock,
                   approved, keyboard, accounts, last>>

\* The process is killed between the commit of bump_stop_step and the commit
\* of delete_ride.
CrashAfterBump(t, ext) ==
    /\ task[t].pc = "await"
    /\ call_api(task[t].op,
                get_account_by_login(accounts, task[t].ride.login), ext) = "truthy"
    /\ rides' = bump_stop_step(rides, task[t].user)
    /\ done' = Record(done, task[t].ride.rent_id, task[t].op)
    /\ task' = [x \in Tasks |-> IdleTask]
    /\ countdown' = [r \in RentIds |-> IdleCountdown]
    /\ UNCHANGED <<nextRent, startRes, issued, deleted, seen, lock,
                   approved, keyboard, accounts, last>>

\* countdown_timer from one await to the next. has_ride: what get_ride
\* returns is not None; edit_ok: edit_message_reply_markup did not raise.
\* The top of the while loop: the test of remaining, then the lookup.
LoopTop(c, has_ride) ==
    IF c.remaining <= 0 THEN [c EXCEPT !.pc = "done"]
    ELSE IF ~has_ride THEN [c EXCEPT !.pc = "done", !.polls = @ + 1]
    ELSE [c EXCEPT !.pc = "edit", !.polls = @ + 1]

\* countdown_timer without the try/except around the edit of the message
CountdownStep_StopsOnEditError(c, has_ride, edit_ok) ==
    CASE c.pc = "poll"  -> LoopTop(c, has_ride)
      [] c.pc = "edit"  -> IF edit_ok THEN [c EXCEPT !.pc = "sleep"]
                           ELSE [c EXCEPT !.pc = "done"]
      [] c.pc = "sleep" ->
            LoopTop([c EXCEPT !.remaining = @ - update_interval], has_ride)

CountdownStep(c, has_ride, edit_ok) ==
    CASE c.pc = "poll"  -> LoopTop(c, has_ride)
      [] c.pc = "edit"  -> [c EXCEPT !.pc = "sleep"]   \* the error is logged
      [] c.pc = "sleep" ->
            LoopTop([c EXCEPT !.remaining = @ - update_interval], has_ride)

\* countdown_timer that removes the row when the time is up
countdown_timer_Deleting(r, edit_ok) ==
    /\ countdown[r].pc \in {"poll", "edit", "sleep"}
    /\ LET c == CountdownStep(countdown[r],
                              get_ride(rides, countdown[r].user) # NoRide,
                              edit_ok)
       IN  /\ countdown' = [countdown EXCEPT ![r] = c]
           /\ rides' = IF c.pc = "done" THEN delete_ride(rides, c.user)
                       ELSE rides
    /\ UNCHANGED <<task, nextRent, startRes, issued, done, deleted,
                   seen, lock, approved, keyboard, accounts, last>>

countdown_timer(r, edit_ok) ==
    /\ countdown[r].pc \in {"poll", "edit", "sleep"}
    /\ countdown' = [countdown EXCEPT ![r] =
                        CountdownStep(countdown[r],
                                      get_ride(rides, countdown[r].user) # NoRide,
                                      edit_ok)]
    /\ UNCHANGED <<rides, task, nextRent, startRes, issued, done, deleted,
                   seen, lock, approved, keyboard, accounts, last>>

\* One get_ride lookup on behalf of a user.
status(u) ==
    /\ seen' = [seen EXCEPT ![u] = [read |-> TRUE, ride |-> get_ride(rides, u)]]
    /\ UNCHANGED <<rides, task, nextRent, startRes, issued, done, deleted,
                   countdown, lock, approved, keyboard, accounts, last>>

\* callback_open_lock that advances the row's stop_step when the lock opens
callback_open_lock_Bumping(u, ext) ==
    /\ LET ride == get_ride(rides, u)
       IN  /\ lock' = [lock EXCEPT ![u] =
                IF ride = NoRide THEN [NoLock EXCEPT !.res = "no_ride"]
                ELSE [res       |-> IF Endpoint("open_lock",
                                         get_account_by_login(accounts, ride.login),
                                         ext).answer = "truthy"
                                    THEN "opened" ELSE "error",
                      login     |-> ride.login,
                      rent_id   |-> ride.rent_id,
                      device_id |-> ride.device_id]]
           /\ rides' = IF /\ ride # NoRide
                          /\ Endpoint("open_lock",
                               get_account_by_login(accounts, ride.login),
                               ext).answer = "truthy"
                       THEN bump_stop_step(rides, u) ELSE rides
    /\ UNCHANGED <<task, nextRent, startRes, issued, done, deleted,
                   countdown, seen, approved, keyboard, accounts, last>>

\* callback_open_lock: get_ride, then POST /rent/open_lock with the login,
\* rent_id and device_id of the ride object, then the answer to the user.
\* Nothing of the store is read or written after the lookup, so the action
\* is placed at the lookup and takes the answer of the call as its input.
callback_open_lock(u, ext) ==
    /\ LET ride == get_ride(rides, u)
       IN  lock' = [lock EXCEPT ![u] =
                IF ride = NoRide THEN [NoLock EXCEPT !.res = "no_ride"]
                ELSE [res       |-> IF Endpoint("open_lock",
                                         get_account_by_login(accounts, ride.login),
                                         ext).answer = "truthy"
                                    THEN "opened" ELSE "error",
                      login     |-> ride.login,
                      rent_id   |-> ride.rent_id,
                      device_id |-> ride.device_id]]
    /\ UNCHANGED <<rides, task, nextRent, startRes, issued, done, deleted,
                   countdown, seen, approved, keyboard, accounts, last>>

Next ==
    \/ \E u \in Users, login \in Logins, device \in Devices,
          ext \in {"ok", "blocked", "error"} :
            callback_start_ride(u, login, device, ext)
    \/ \E t \in Tasks, u \in Users : stop_ride_handler_unified(t, u)
    \/ \E t \in Tasks : auto_finish_ride(t)
    \/ \E t \in Tasks, ext \in ExtResponses : stop_ride_handler(t, ext)
    \/ Crash
    \/ \E t \in Tasks, ext \in ExtResponses : CrashAfterBump(t, ext)

Spec == Init /\ [][Next]_vars

\* The countdown of the rentals in Watched together with what decides its
\* lookups, the starts and the manual stops. countdown_timer writes nothing
\* another coroutine reads, so the other countdowns and auto_finish_ride are
\* left unscheduled here.
Watched == {1}

NextCountdown ==
    \/ \E u \in Users, login \in Logins, device \in Devices,
          ext \in {"ok", "blocked", "error"} :
            callback_start_ride(u, login, device, ext)
    \/ \E t \in Tasks, u \in Users : stop_ride_handler_unified(t, u)
    \/ \E t \in Tasks, ext \in ExtResponses : stop_ride_handler(t, ext)
    \/ \E r \in Watched, edit_ok \in BOOLEAN : countdown_timer(r, edit_ok)

\* The event loop resumes a coroutine whose await has ended.
SpecCountdown ==
    /\ Init
    /\ [][NextCountdown]_vars
    /\ WF_vars(\E r \in Watched, edit_ok \in BOOLEAN : countdown_timer(r, edit_ok))

\* The lookups and the lock commands together with what changes the table.
NextLookup ==
    \/ \E u \in Users, login \in Logins, device \in Devices,
          ext \in {"ok", "blocked", "error"} :
            callback_start_ride(u, login, device, ext)
    \/ \E t \in Tasks, u \in Users : stop_ride_handler_unified(t, u)
    \/ \E t \in Tasks, ext \in ExtResponses : stop_ride_handler(t, ext)
    \/ \E t \in Tasks, ext \in ExtResponses : CrashAfterBump(t, ext)
    \/ \E u \in Users : status(u)
    \/ \E u \in Users, ext \in ExtResponses : callback_open_lock(u, ext)

SpecLookup == Init /\ [][NextLookup]_vars

\* The retry loops of the rentals in ExpiryWatched together with the starts
\* and the manual stops, in a process that stays up. The event loop resumes
\* a coroutine whose sleep has ended, and every call of call_api ends with an
\* answer or an exception.
ExpiryWatched == {<<"auto", 1>>, <<"auto", 2>>, <<"manual", "m1">>}

NextExpiry ==
    \/ \E u \in Users, login \in Logins, device \in Devices,
          ext \in {"ok", "blocked", "error"} :
            callback_start_ride(u, login, device, ext)
    \/ \E t \in Tasks, u \in Users : stop_ride_handler_unified(t, u)
    \/ \E t \in ExpiryWatched : auto_finish_ride(t)
    \/ \E t \in ExpiryWatched, ext \in ExtResponses : stop_ride_handler(t, ext)

SpecExpiry ==
    /\ Init
    /\ [][NextExpiry]_vars
    /\ \A t \in ExpiryWatched :
          /\ WF_vars(auto_finish_ride(t))
          /\ WF_vars(\E ext \in ExtResponses : stop_ride_handler(t, ext))

\* ------------------------------------------------------ access, bot.py
\* LoggingMiddleware, the decision: a sender without a row gets one with
\* approved = False and the handler is not called; a sender who is not
\* approved is answered "Доступ запрещен"; otherwise the handler is called.
LoggingMiddleware(user) ==
    IF user = "unregistered" THEN "create_telegram_user"
    ELSE IF user # "approved" THEN "denied"
    ELSE "handler"

\* LoggingMiddleware returning without calling the handler
NotHandled(u) ==
    /\ approved' = [approved EXCEPT ![u] =
                       IF LoggingMiddleware(@) = "create_telegram_user"
                       THEN "pending" ELSE @]
    /\ UNCHANGED <<rides, task, nextRent, startRes, issued, done, deleted,
                   countdown, seen, lock, keyboard, accounts, last>>

\* handle_bike_input up to the message with the start button (offer: a
\* login is selected and the vehicle is STATIONED)
handle_bike_input(u, offer) ==
    /\ keyboard' = [keyboard EXCEPT ![u] = IF offer THEN @ \cup {"start"} ELSE @]
    /\ UNCHANGED <<rides, task, nextRent, startRes, issued, done, deleted,
                   countdown, seen, lock, approved, accounts, last>>

\* dp.message: a bike number or a photo
on_message_bike(u, offer) ==
    IF LoggingMiddleware(approved[u]) = "handler"
    THEN handle_bike_input(u, offer)
    ELSE NotHandled(u)

\* dp.message: "стоп" or /stop
on_message_stop(t, u) ==
    IF LoggingMiddleware(approved[u]) = "handler"
    THEN stop_ride_handler_unified(t, u)
    ELSE ~IsAuto(t) /\ NotHandled(u)

\* dp.callback_query has no middleware: a pressed button goes to its handler
on_callback_start(u, login, device, ext) ==
    /\ "start" \in keyboard[u]
    /\ callback_start_ride(u, login, device, ext)

on_callback_lock(u, ext) ==
    /\ "ride" \in keyboard[u]
    /\ callback_open_lock(u, ext)

on_callback_stop(t, u) ==
    /\ "ride" \in keyboard[u]
    /\ stop_ride_handler_unified(t, u)

\* remove_inline_keyboard: the start button goes after 300 s
remove_inline_keyboard(u) ==
    /\ "start" \in keyboard[u]
    /\ keyboard' = [keyboard EXCEPT ![u] = @ \ {"start"}]
    /\ UNCHANGED <<rides, task, nextRent, startRes, issued, done, deleted,
                   countdown, seen, lock, approved, accounts, last>>

\* update_telegram_user(telegram_id, approved=b), by the administrator
update_telegram_user(u, b) ==
    /\ approved[u] # "unregistered"
    /\ approved' = [approved EXCEPT ![u] = IF b THEN "approved" ELSE "pending"]
    /\ UNCHANGED <<rides, task, nextRent, startRes, issued, done, deleted,
                   countdown, seen, lock, keyboard, accounts, last>>

\* The events of a chat as the dispatcher routes them, the answers of the
\* stop calls, and the administrator.
NextAccess ==
    \/ \E u \in Users, offer \in BOOLEAN : on_message_bike(u, offer)
    \/ \E t \in Tasks, u \in Users : on_message_stop(t, u)
    \/ \E u \in Users, login \in Logins, device \in Devices,
          ext \in {"ok", "blocked", "error"} :
            on_callback_start(u, login, device, ext)
    \/ \E u \in Users, ext \in ExtResponses : on_callback_lock(u, ext)
    \/ \E t \in Tasks, u \in Users : on_callback_stop(t, u)
    \/ \E t \in Tasks, ext \in ExtResponses : stop_ride_handler(t, ext)
    \/ \E u \in Users : remove_inline_keyboard(u)
    \/ \E u \in Users, b \in BOOLEAN : update_telegram_user(u, b)

SpecAccess == Init /\ [][NextAccess]_vars

\* ---------------------------------------------------- accounts, database.py
\* create_account / delete_account on the gateway's table, by its operator
create_account(login) ==
    /\ accounts' = accounts \cup {login}
    /\ UNCHANGED <<rides, task, nextRent, startRes, issued, done, deleted,
                   countdown, seen, lock, approved, keyboard, last>>

delete_account(login) ==
    /\ accounts' = accounts \ {login}
    /\ UNCHANGED <<rides, task, nextRent, startRes, issued, done, deleted,
                   countdown, seen, lock, approved, keyboard, last>>

\* The stops and the retry loops of the rentals in ExpiryWatched while the
\* gateway's accounts come and go.
NextAccounts ==
    \/ \E u \in Users, login \in Logins, device \in Devices,
          ext \in {"ok", "blocked", "error"} :
            callback_start_ride(u, login, device, ext)
    \/ \E t \in Tasks, u \in Users : stop_ride_handler_unified(t, u)
    \/ \E t \in ExpiryWatched : auto_finish_ride(t)
    \/ \E t \in ExpiryWatched, ext \in ExtResponses : stop_ride_handler(t, ext)
    \/ \E login \in Logins : create_account(login)
    \/ \E login \in Logins : delete_account(login)

SpecAccounts == Init /\ [][NextAccounts]_vars

\* ------------------------------------------------- the store on its own
\* delete_ride and bump_stop_step applied to every table of at most one row
\* per user, for two users.
StoreUsers == {42, 43}
Steps == 0..4

\* no row of user u, or one row
Slot(u) ==
    {{}} \cup {{[ActiveRide(u, l, r, d) EXCEPT !.stop_step = k]} :
                  l \in Logins, r \in RentIds, d \in Devices, k \in Steps}

Tables ==
    {UNION {f[u] : u \in StoreUsers} :
        f \in {g \in [StoreUsers -> UNION {Slot(u) : u \in StoreUsers}] :
                  \A u \in StoreUsers : g[u] \in Slot(u)}}

InitStore ==
    /\ rides \in Tables
    /\ task = [t \in Tasks |-> IdleTask]
    /\ nextRent = MaxStarts + 1
    /\ startRes = [u \in Users |-> "none"]
    /\ issued = NoCalls
    /\ done = NoCalls
    /\ deleted = {}
    /\ countdown = [r \in RentIds |-> IdleCountdown]
    /\ seen = [u \in Users |-> NotSeen]
    /\ lock = [u \in Users |-> NoLock]
    /\ approved = [u \in Users |-> "unregistered"]
    /\ keyboard = [u \in Users |-> {}]
    /\ accounts = Logins
    /\ last = <<>>

\* the history of the last two calls
Logged(fn, user_id, ret) ==
    LET e == [fn |-> fn, user |-> user_id, ret |-> ret]
    IN  IF last = <<>> THEN <<e>> ELSE <<last[Len(last)], e>>

call_delete_ride(user_id) ==
    /\ rides' = delete_ride(rides, user_id)
    /\ last' = Logged("delete_ride", user_id, delete_ride_returns(rides, user_id))
    /\ UNCHANGED <<task, nextRent, startRes, issued, done, deleted, countdown,
                   seen, lock, approved, keyboard, accounts>>

call_bump_stop_step(user_id) ==
    /\ \A r \in RowsOf(rides, user_id) : r.stop_step < 4
    /\ rides' = bump_stop_step(rides, user_id)
    /\ last' = Logged("bump_stop_step", user_id,
                      bump_stop_step_returns(rides, user_id))
    /\ UNCHANGED <<task, nextRent, startRes, issued, done, deleted, countdown,
                   seen, lock, approved, keyboard, accounts>>

NextStore ==
    \/ \E u \in StoreUsers : call_delete_ride(u)
    \/ \E u \in StoreUsers : call_bump_stop_step(u)

SpecStore == InitStore /\ [][NextStore]_vars

TypeOK ==
    /\ \A r \in rides : r.user_id \in Users /\ r.rent_id \in RentIds
    /\ nextRent \in 1..(MaxStarts + 1)
    /\ \A t \in Tasks : task[t].pc \in {"idle", "sleep", "await", "done"}
    /\ deleted \subseteq RentIds

\* ------------------------------------------------------------ properties
AllCalls == <<"finish", "park", "upload_photo", "finish_after_upload">>

\* the position of a call in the stop sequence, 1..4
Pos(op) == CHOOSE i \in 1..4 : AllCalls[i] = op

\* a stop_ride_handler invocation of task t has returned ride.rent_id and the
\* one answer it got was a 200 with a truthy body (Completed)
StoppedClean(t) ==
    /\ task[t].pc = "done"
    /\ task[t].ret.kind = "ok"
    /\ task[t].calls # <<>>
    /\ task[t].out = "truthy"

\* C1: a stop that finds the Rental at stop_step 0 (its first call is finish)
\* and whose calls are all answered Completed has sent the four calls finish,
\* park, upload-photo, finish-after-upload, once each and in this order, the
\* Rental is deleted and the rental id is returned.
C1_StopSendsFourCalls ==
    \A t \in Tasks :
        (StoppedClean(t) /\ Head(task[t].calls) = "finish")
            => /\ task[t].calls = AllCalls
               /\ task[t].ret.rent \in deleted

\* C2: a Rental that the stop sequence has deleted has had each of the four
\* calls answered Completed or NotFound.
C2_DeletedOnlyAfterFourSteps ==
    \A r \in deleted : done[r] = Ops

\* C3: the stop_step of a stored Rental never decreases and never moves by
\* more than one, and a move by one comes with the answered call, for this
\* Rental, of the step the cursor pointed at.
C3_CursorAdvancesByOwnCall ==
    [][\A a \in rides, b \in rides' :
          (a.user_id = b.user_id /\ a.rent_id = b.rent_id)
              => \/ b.stop_step = a.stop_step
                 \/ /\ b.stop_step = a.stop_step + 1
                    /\ \E t \in Tasks : /\ task[t].pc = "await"
                                        /\ task[t].ride.rent_id = a.rent_id
                                        /\ task[t].op = StepOp(a.stop_step)
                    /\ StepOp(a.stop_step) \in done'[a.rent_id]]_vars

\* C4: a call is sent for a Rental only when the call before it in the stop
\* sequence has been answered for this Rental, and it is the call the stored
\* cursor maps to (the n-th call at stop_step n-1).
C4_CallsInOrder ==
    [][\A r \in RentIds : \A op \in issued'[r] \ issued[r] :
          /\ Pos(op) > 1 => AllCalls[Pos(op) - 1] \in done[r]
          /\ \E row \in rides : /\ row.rent_id = r
                                /\ row.stop_step = Pos(op) - 1]_vars

\* a call of task t has just raised (non-200 from the gateway, or no answer)
CallFailed(t) ==
    /\ task[t].pc = "await"
    /\ task'[t].pc \in {"sleep", "done"}
    /\ task'[t].ret.kind # "ok"

\* C5: a call that ends in an error persists nothing, and every attempt sends
\* the call of the stop_step stored at that moment, so the attempt after a
\* failure sends the same call again.
C5_FailurePersistsNothing ==
    [][/\ \A t \in Tasks : CallFailed(t) => rides' = rides /\ deleted' = deleted
       /\ \A t \in Tasks :
            (task[t].pc # "await" /\ task'[t].pc = "await")
                => /\ rides' = rides
                   /\ task'[t].op =
                        StepOp(get_ride(rides, task'[t].user).stop_step)]_vars

\* C5 witness: a park call has failed and the Rental is still at stop_step 1
C5_Witness ==
    \E t \in Tasks : /\ task[t].pc = "done"
                     /\ task[t].ret.kind = "ApiError"
                     /\ task[t].calls = <<"park">>
                     /\ \E row \in rides : row.stop_step = 1

\* C6: for every call in flight, a 404 of the external service raises no
\* error in the bot and leaves the store as a Completed answer would.
C6_NotFoundIsSuccess ==
    \A t \in Tasks :
        task[t].pc = "await" =>
            /\ call_api(task[t].op, TRUE, "not_found") # "raise"
            /\ AfterResponse(rides, task[t].user, call_api(task[t].op, TRUE, "not_found"))
                 = AfterResponse(rides, task[t].user, call_api(task[t].op, TRUE, "ok"))

\* C7: a stop that finds the Rental past its first step (stop_step k > 0) and
\* whose calls are all answered Completed has sent the calls of the steps
\* from the cursor to finish-after-upload, in order, and none before them.
C7_ResumesFromCursor ==
    \A t \in Tasks :
        (StoppedClean(t) /\ Head(task[t].calls) # "finish")
            => task[t].calls = SubSeq(AllCalls, Pos(Head(task[t].calls)), 4)

\* C8: a manual stop and the expiry task never both have the same call of the
\* same Rental in flight.
C8_TriggersSerialized ==
    \A t1, t2 \in Tasks :
        (/\ IsAuto(t1) /\ ~IsAuto(t2)
         /\ task[t1].pc = "await" /\ task[t2].pc = "await"
         /\ task[t1].ride.rent_id = task[t2].ride.rent_id)
            => task[t1].op # task[t2].op

\* C9: the table holds at most one row per user
C9_OneRentalPerUser ==
    \A u \in Users : Cardinality(RowsOf(rides, u)) <= 1

\* C9 witness: a start was refused by the table while the user's row exists
C9_Witness ==
    \E u \in Users : startRes[u] = "AlreadyActive" /\ Cardinality(RowsOf(rides, u)) = 1

\* C10: a start for a user who has a Rental ends with AlreadyActive and leaves
\* the table as it was.
C10_SecondStartAlreadyActive ==
    [][\A u \in Users :
          (RowsOf(rides, u) # {} /\ (startRes'[u] # startRes[u] \/ nextRent' # nextRent))
              => startRes'[u] = "AlreadyActive" /\ rides' = rides]_vars

\* every attempt of the run of auto_finish_ride t has sent its call, and every
\* one of these calls has raised
EveryCallRaised(t) ==
    /\ IsAuto(t)
    /\ task[t].pc \in {"sleep", "done"}
    /\ task[t].ret.kind # "ok"
    /\ task[t].attempt > 0
    /\ Len(task[t].sent) = task[t].attempt

\* C11: when every call of a run of auto_finish_ride raises, the run makes
\* exactly max_retries = 5 attempts, that is 5 calls, all of the same step,
\* and then, not earlier, tells the user that the automatic stop failed.
C11_FiveAttemptsThenExhausted ==
    \A t \in Tasks :
        EveryCallRaised(t)
            => /\ task[t].attempt <= max_retries
               /\ task[t].pc = "done" <=> task[t].attempt = max_retries
               /\ task[t].pc = "done" => /\ task[t].msg = "auto_failed"
                                         /\ task[t].ret.kind = "ApiError"
               /\ task[t].pc = "sleep" => task[t].msg = "none"
               /\ \A i \in 1..Len(task[t].sent) : task[t].sent[i] = task[t].sent[1]

C11_Witness ==
    \E t \in Tasks : /\ EveryCallRaised(t)
                     /\ task[t].msg = "auto_failed"
                     /\ Len(task[t].sent) = max_retries

C13_ExhaustedKeepsRental ==
    [][\A t \in Tasks :
          (IsAuto(t) /\ task[t].msg # "auto_failed" /\ task'[t].msg = "auto_failed")
              => \E row \in rides' : /\ row.rent_id = task'[t].arg
                                     /\ row \in rides]_vars

\* C14: a run of auto_finish_ride whose call finish raised fewer times than
\* max_retries and was then answered Completed has sent park, upload-photo and
\* finish-after-upload too, and ends with the Rental deleted and without the
\* failure message.
C14_RetriedStopSendsRemainingCalls ==
    \A t \in Tasks :
        (/\ IsAuto(t)
         /\ task[t].pc = "done"
         /\ task[t].ret.kind = "ok"
         /\ task[t].out = "truthy"
         /\ task[t].attempt > 1)
            => /\ issued[task[t].ret.rent] = Ops
               /\ task[t].ret.rent \in deleted
               /\ task[t].msg # "auto_failed"

C16_DoneOnlyAfterLastStep ==
    [][\A t \in Tasks :
          (task[t].pc = "await" /\ task'[t].out = "truthy")
              => IF task[t].op = "finish_after_upload"
                 THEN /\ task'[t].ret.kind = "ok"
                      /\ RowsOf(rides', task[t].user) = {}
                 ELSE /\ task'[t].ret.kind # "ok"
                      /\ \E row \in rides' :
                            /\ row.rent_id = task[t].ride.rent_id
                            /\ row.stop_step = task[t].ride.stop_step + 1]_vars

\* task t enters stop_ride_handler in this step
Entered(t) ==
    IF IsAuto(t)
    THEN task'[t].attempt = task[t].attempt + 1
    ELSE /\ task[t].pc \in {"idle", "done"}
         /\ task'[t].pc \in {"await", "done"}
         /\ task'[t] # task[t]

\* the invocation task t has just entered ended with the exception kind
\* before any call, and the store is as it was
Refused(t, kind) ==
    /\ task'[t].pc \in {"sleep", "done"}
    /\ task'[t].pc = "done" => task'[t].ret = Ret(kind, None)
    /\ task'[t].calls = <<>>
    /\ rides' = rides
    /\ issued' = issued
    /\ deleted' = deleted

\* C17: stop_ride_handler raises NoActiveRental when the user has no Rental
\* and RentalMismatch when a rentId was passed that differs from the stored
\* one; in both cases no call is sent and the store is unchanged.
C17_RefusedBeforeAnyCall ==
    [][\A t \in Tasks :
          Entered(t)
              => LET ride == get_ride(rides, task'[t].user)
                 IN  /\ ride = NoRide => Refused(t, "NoActiveRental")
                     /\ (/\ ride # NoRide
                         /\ task'[t].arg # None
                         /\ ride.rent_id # task'[t].arg)
                            => Refused(t, "RentalMismatch")]_vars

C17_Witness ==
    /\ \E t \in Tasks : /\ task[t].pc = "done"
                        /\ task[t].ret = Ret("NoActiveRental", None)
                        /\ task[t].calls = <<>>
    /\ \E t \in Tasks : /\ task[t].pc = "done"
                        /\ task[t].ret = Ret("RentalMismatch", None)
                        /\ task[t].calls = <<>>

C19_RejectedStartCreatesNothing ==
    [][\A u \in Users :
          (startRes'[u] # startRes[u] /\ nextRent' = nextRent)
              => /\ startRes'[u] = "RemoteRejected"
                 /\ rides' = rides
                 /\ task' = task
                 /\ countdown' = countdown]_vars

C19_Witness ==
    /\ \E u \in Users : startRes[u] = "RemoteRejected"
    /\ rides = {}
    /\ nextRent = 1
    /\ \A t \in Tasks : task[t] = IdleTask
    /\ \A r \in RentIds : countdown[r] = IdleCountdown

C21_ExpiryTerminatesRental ==
    \A t \in Tasks :
        (/\ IsAuto(t)
         /\ task[t].pc = "done"
         /\ task[t].msg = "auto_finished"
         /\ task[t].out = "truthy"
         /\ task[t].attempt = 1
         /\ \A m \in Tasks : ~IsAuto(m) => task[m] = IdleTask)
            => /\ issued[task[t].arg] = Ops
               /\ task[t].arg \in deleted

\* C22: an attempt of auto_finish_ride that finds no Rental of the user ends
\* the run as a normal end: no call is sent, nothing is retried and no failure
\* message is sent.
C22_DeletedRentalIsNormalEnd ==
    [][\A t \in Tasks :
          (IsAuto(t) /\ Entered(t) /\ RowsOf(rides, task'[t].user) = {})
              => /\ task'[t].pc = "done"
                 /\ task'[t].msg # "auto_failed"
                 /\ issued' = issued]_vars

\* countdown_timer of rental r takes a step
CountdownStepped(r) ==
    /\ countdown[r].pc \in {"poll", "edit", "sleep"}
    /\ countdown'[r] # countdown[r]
    /\ countdown'[r].pc # "idle"

\* C23: a step of countdown_timer leaves the table as it is, sends no rental
\* call and touches no other coroutine.
C23_CountdownWritesNothing ==
    [][\A r \in RentIds :
          CountdownStepped(r)
              => /\ rides' = rides
                 /\ issued' = issued
                 /\ done' = done
                 /\ deleted' = deleted
                 /\ task' = task]_vars

C23_Witness ==
    \E r \in RentIds :
        /\ countdown[r].pc = "sleep"
        /\ countdown[r].polls >= 2
        /\ \E row \in rides : row.rent_id = r /\ row.stop_step = 0
        /\ issued[r] = {}

C25_IdsImmutable ==
    [][\A a \in rides, b \in rides' :
          a.user_id = b.user_id
              => /\ b.rent_id = a.rent_id
                 /\ b.device_id = a.device_id
                 /\ b.login = a.login]_vars

C25_Witness ==
    \E row \in rides :
        /\ row.stop_step >= 1
        /\ row.device_id \in Devices
        /\ row.login \in Logins
        /\ lock[row.user_id].res = "opened"
        /\ lock[row.user_id].rent_id = row.rent_id

\* C26: the stop_step of every stored Rental is one of 0, 1, 2, 3, 4.
C26_StepInRange ==
    \A row \in rides : row.stop_step \in 0..4

C26_Witness ==
    \E row \in rides : row.stop_step = 4

\* C27: a get_ride lookup returns the user's row when there is one and
\* nothing otherwise, and changes nothing: not the table, not a call, not a
\* coroutine.
C27_LookupReadOnly ==
    [][\A u \in Users :
          seen'[u] # seen[u]
              => /\ seen'[u].read
                 /\ IF RowsOf(rides, u) = {}
                    THEN seen'[u].ride = NoRide
                    ELSE seen'[u].ride \in RowsOf(rides, u)
                 /\ UNCHANGED <<rides, task, nextRent, startRes, issued, done,
                                deleted, countdown, lock>>]_vars

C27_Witness ==
    \E u \in Users :
        /\ seen[u].read
        /\ seen[u].ride \in rides
        /\ seen[u].ride.user_id = u
        /\ seen[u].ride.stop_step >= 1

Parseable == {"ok", "ok_empty", "not_found", "error"}
NonOk     == {"not_found", "error"}

C30_ExpiryActsOnlyOnItsRental ==
    [][\A t \in Tasks :
          (/\ IsAuto(t)
           /\ task[t].pc \in {"sleep", "await"}
           /\ task'[t] # task[t]
           /\ task'[t].pc # "idle")
              => \A row \in rides :
                    row.rent_id # task[t].arg
                        => /\ row \in rides'
                           /\ issued'[row.rent_id] = issued[row.rent_id]]_vars

\* C31: every rental the external service has handed out has a row in the
\* table until a stop has deleted that row: no start reaches the external
\* service while the user has a Rental.
C31_NoOrphanRemoteRental ==
    \A r \in RentIds :
        r < nextRent => (\E row \in rides : row.rent_id = r) \/ r \in deleted

\* a step in which task t hands a call to the gateway
Sends(t) ==
    /\ task'[t].pc = "await"
    /\ task[t].pc # "await" \/ Len(task'[t].calls) > Len(task[t].calls)

\* C32: no task sends a termination call carrying the rental id of a row
\* that has been deleted: every call is sent for a row that is in the table
\* at the moment of sending.
C32_NoCallAfterDelete ==
    [][\A t \in Tasks :
          Sends(t) => /\ task'[t].ride.rent_id \notin deleted
                      /\ \E row \in rides :
                            row.rent_id = task'[t].ride.rent_id]_vars

\* C32 witness: the manual stop has deleted the row of a rental while the
\* retry loop of that rental was asleep after a failed call; the loop has
\* since made a further attempt, which sent nothing.
C32_Witness ==
    \E t \in Tasks, m \in Tasks :
        /\ IsAuto(t) /\ ~IsAuto(m)
        /\ task[t].arg \in deleted
        /\ task[m].pc = "done" /\ task[m].ret = Ret("ok", task[t].arg)
        /\ task[t].pc = "sleep" /\ task[t].attempt >= 2
        /\ task[t].sent = <<>>
        /\ "finish" \in issued[task[t].arg]

RentalHandlerRuns(u) ==
    \/ startRes'[u] # startRes[u]
    \/ nextRent' # nextRent /\ keyboard'[u] # keyboard[u]
    \/ lock'[u] # lock[u]
    \/ \E t \in Tasks : ~IsAuto(t) /\ Entered(t) /\ task'[t].user = u

\* C34: a rental handler acts only for a user who is approved at that
\* moment, whether the event is a message or a pressed button.
C34_OnlyApprovedUsersOperate ==
    [][\A u \in Users : RentalHandlerRuns(u) => approved[u] = "approved"]_vars

\* C35: a step of callback_open_lock sends /rent/open_lock only when the
\* user has a row, with the login, rent_id and device_id of that row, answers
\* "no ride" only when there is none, and leaves the table as it is, whether
\* the call succeeds or fails.
C35_LockOpenUsesStoredRental ==
    [][\A u \in Users :
          lock'[u] # lock[u]
              => /\ rides' = rides
                 /\ lock'[u].res \in {"opened", "error", "no_ride"}
                 /\ lock'[u].res = "no_ride" <=> RowsOf(rides, u) = {}
                 /\ lock'[u].res \in {"opened", "error"}
                       => \E row \in RowsOf(rides, u) :
                            /\ lock'[u].login = row.login
                            /\ lock'[u].rent_id = row.rent_id
                            /\ lock'[u].device_id = row.device_id]_vars

\* C35 witness: a lock command has failed for a user whose row, with its
\* cursor advanced, is still in the table
C35_Witness ==
    \E row \in rides :
        /\ lock[row.user_id].res = "error"
        /\ lock[row.user_id].rent_id = row.rent_id
        /\ lock[row.user_id].device_id = row.device_id
        /\ lock[row.user_id].login = row.login
        /\ row.stop_step >= 1

\* C36: every termination endpoint answers a request whose login has no
\* account with an error and without calling the external service, and the
\* stop attempt that gets this answer raises and leaves the table and the
\* cursor of the Rental as they were.
C36_UnknownAccountFailsAttempt ==
    /\ [](\A op \in Ops, ext \in ExtResponses :
            /\ Endpoint(op, FALSE, ext).answer = "http_error"
            /\ ~Endpoint(op, FALSE, ext).external
            /\ call_api(op, FALSE, ext) = "raise")
    /\ [][\A t \in Tasks :
            (/\ task[t].pc = "await"
             /\ task'[t] # task[t]
             /\ ~get_account_by_login(accounts, task[t].ride.login))
                => /\ CallFailed(t)
                   /\ task'[t].pc = "done"
                         => task'[t].ret.kind = "ApiError_AccountNotFound"
                   /\ rides' = rides
                   /\ <<issued', done', deleted'>> = <<issued, done, deleted>>]_vars

\* C36 witness: a stop has ended with the exception of the missing account
\* while the Rental, its cursor at 0, is still stored under that login
C36_Witness ==
    \E t \in Tasks, row \in rides :
        /\ task[t].pc = "done"
        /\ task[t].ret.kind = "ApiError_AccountNotFound"
        /\ row.user_id = task[t].user
        /\ ~get_account_by_login(accounts, row.login)
        /\ row.stop_step = 0
        /\ "finish" \in issued[row.rent_id]

\* the call of the store made in this step
Called == last'[Len(last')]

\* C37: bump_stop_step and delete_ride for a user without a row return None
\* and False and leave the table as it is; neither ever adds a row or touches
\* the row of another user; after a delete_ride the user has no row, so a
\* second delete_ride returns False and changes nothing.
C37_StoreNoOps ==
    [][(last' # <<>> /\ (last' # last \/ rides' # rides)) =>
          /\ RowsOf(rides, Called.user) = {}
                => /\ rides' = rides
                   /\ Called.fn = "delete_ride" => Called.ret = "False"
                   /\ Called.fn = "bump_stop_step" => Called.ret = "None"
          /\ RowsOf(rides, Called.user) # {}
                => Called.ret \in {"True", "ride"}
          /\ \A u \in StoreUsers :
                u # Called.user => RowsOf(rides', u) = RowsOf(rides, u)
          /\ Cardinality(rides') <= Cardinality(rides)
          /\ Called.fn = "delete_ride"
                => /\ RowsOf(rides', Called.user) = {}
                   /\ delete_ride(rides', Called.user) = rides'
                   /\ delete_ride_returns(rides', Called.user) = "False"
          /\ (/\ Len(last) >= 1
              /\ last[Len(last)].fn = "delete_ride"
              /\ last[Len(last)].user = Called.user
              /\ Called.fn = "delete_ride")
                => Called.ret = "False" /\ rides' = rides]_vars

\* C37 witness: a delete_ride that returned True was followed by a second
\* delete_ride for the same user, which returned False, while the other user
\* has a row
C37_Witness ==
    /\ Len(last) = 2
    /\ last[1] = [fn |-> "delete_ride", user |-> 42, ret |-> "True"]
    /\ last[2] = [fn |-> "delete_ride", user |-> 42, ret |-> "False"]
    /\ RowsOf(rides, 42) = {}
    /\ \E row \in RowsOf(rides, 43) : row.stop_step >= 1
====
